---- MODULE Spec2Model ----
(***************************************************************************)
(* A model of getlino's Installer (src/getlino/utils.py): the confirmation *)
(* gate, the scoped batch override, the deferred package / service         *)
(* accumulators, the shell command runner, the filesystem mutators and     *)
(* the terminal finish() step.                                             *)
(*                                                                         *)
(* Every Installer method is a pure operator on a "world" record w that    *)
(* threads the object's fields (batch, _services, _system_packages), the   *)
(* filesystem and a log of what the call did (commands run, prompts shown, *)
(* characters read).  A method yields the set of its possible outcomes     *)
(* [w, ret, exc], one per choice of the environment (characters typed,     *)
(* exit codes, iteration order of a set).  Each action of the state        *)
(* machine is one complete call of one method.                             *)
(***************************************************************************)
EXTENDS Integers, Sequences, FiniteSets, TLC

\* ------------------------------------------------------------------ bounds
MaxLen == 4        \* longest argument string given to apt_install
MaxKeys == 2       \* most characters typed during one call
MaxDepth == 2      \* deepest nesting of override_batch scopes of the caller

\* --------------------------------------------------------- small universes
NameChars == {"a"}
Whitespace == {" "}
Chars == NameChars \cup Whitespace
Keys == {"y", "Y", "n", "N", "x", "\r"}
ExitCodes == {0, 1}
Services == {"nginx", "supervisor"}

SeqsUpTo(S, n) == UNION {[1..k -> S] : k \in 0..n}

\* all the orders in which Python may iterate over the set S
Orders(S) == {f \in [1..Cardinality(S) -> S] : \A i, j \in 1..Cardinality(S) : f[i] = f[j] => i = j}

Range(f) == {f[i] : i \in DOMAIN f}

\* ------------------------------------------------------------- exceptions
NoExc == [type |-> "none", cmd |-> <<>>, code |-> 0]
ClickException(cmd, code) == [type |-> "ClickException", cmd |-> cmd, code |-> code]

\* A call yields the SET of its possible outcomes [w, ret, exc]: one per
\* choice the environment can make (the characters typed, the exit codes
\* of the processes, the iteration order of a Python set).
Raised(r) == r.exc.type # "none"
Return(w, ret) == [w |-> w, ret |-> ret, exc |-> NoExc]
Raise(w, e) == [w |-> w, ret |-> "None", exc |-> e]

\* ------------------------------------------------------ confirmation gate
yes == {"y", "Y"}
no == {"n", "N"}

\* one round of the "while True" loop per character read
RECURSIVE getchar_loop(_, _)
getchar_loop(w, msg) ==
    IF w.reads >= MaxKeys THEN {}
    ELSE UNION {
        LET w1 == [w EXCEPT !.reads = @ + 1, !.typed = IF w.record THEN Append(@, c) ELSE @]
        IN  IF c \in yes
              THEN {Return([w1 EXCEPT !.prompts = Append(@, [msg |-> msg, answer |-> "True"])], "True")}
            ELSE IF c \in no
              THEN {Return([w1 EXCEPT !.prompts = Append(@, [msg |-> msg, answer |-> "False"])], "False")}
            ELSE getchar_loop(w1, msg)
        : c \in Keys}

\* a yes_or_no that takes any other character for the default answer
yes_or_no_OtherKeyIsDefault(w, msg, default) ==
    IF w.batch THEN {Return(w, default)}
    ELSE IF w.reads >= MaxKeys THEN {}
    ELSE {LET w1 == [w EXCEPT !.reads = @ + 1, !.typed = IF w.record THEN Append(@, c) ELSE @]
              answer == IF c \in yes THEN "True" ELSE IF c \in no THEN "False" ELSE default
          IN  Return([w1 EXCEPT !.prompts = Append(@, [msg |-> msg, answer |-> answer])], answer)
            : c \in Keys}
yes_or_no_AnswersYes(w, msg, default) ==
    IF w.batch THEN {Return(w, "True")}
    ELSE getchar_loop(w, msg)
yes_or_no(w, msg, default) ==
    IF w.batch THEN {Return(w, default)}
    ELSE getchar_loop(w, msg)

\* the idiom "self.batch or self.yes_or_no(msg, default=True)"
batch_or_yes(w, msg) ==
    IF w.batch THEN {Return(w, "True")} ELSE yes_or_no(w, msg, "True")

\* ---------------------------------------------------------- override_batch
\* the generator frame of the context manager holds the local "old"
override_enter(w, b) == [old |-> w.batch, w |-> [w EXCEPT !.batch = b]]
\* the finally clause: it runs whether the body ended or is raising
override_exit_OnSuccessOnly(w, old, raising) == IF raising THEN w ELSE [w EXCEPT !.batch = old]
override_exit(w, old, raising) == [w EXCEPT !.batch = old]

\* ------------------------------------------------------------ accumulators
must_restart_Replaces(w, srvname) == {Return([w EXCEPT !._services = {srvname}], "None")}
must_restart(w, srvname) == {Return([w EXCEPT !._services = @ \cup {srvname}], "None")}

\* str.split(): the maximal runs of non-whitespace characters
RECURSIVE split_from(_, _, _)
split_from(s, i, word) ==
    IF i > Len(s) THEN (IF word = "" THEN <<>> ELSE <<word>>)
    ELSE IF s[i] \in Whitespace
         THEN (IF word = "" THEN <<>> ELSE <<word>>) \o split_from(s, i + 1, "")
         ELSE split_from(s, i + 1, word \o s[i])
split(s) == split_from(s, 1, "")

RECURSIVE add_all(_, _)
add_all(S, words) == IF words = <<>> THEN S ELSE add_all(S \cup {Head(words)}, Tail(words))

\* an apt_install that also asks for the restart of a service
apt_install_TouchesServices(w, packages) ==
    {Return([w EXCEPT !._system_packages = add_all(@, split(packages)),
                      !._services = @ \cup {"supervisor"}], "None")}
apt_install_FirstNameOnly(w, packages) ==
    {Return([w EXCEPT !._system_packages =
                IF split(packages) = <<>> THEN @ ELSE @ \cup {Head(split(packages))}], "None")}
apt_install(w, packages) ==
    {Return([w EXCEPT !._system_packages = add_all(@, split(packages))], "None")}

\* ------------------------------------------------------------ shell runner
\* subprocess.run(cmd, shell=True): the process ends with some exit code
subprocess_run(w, cmd) ==
    {[w |-> [w EXCEPT !.cmds = Append(@, [line |-> cmd, code |-> code])], code |-> code]
        : code \in ExitCodes}

runcmd_IgnoresExitCode(w, cmd) ==
    UNION {
        IF g.ret # "True" THEN {Return(g.w, "None")}
        ELSE {Return(cp.w, "None") : cp \in subprocess_run(g.w, cmd)}
        : g \in batch_or_yes(w, "run")}
runcmd(w, cmd) ==
    UNION {
        IF g.ret # "True" THEN {Return(g.w, "None")}
        ELSE {IF cp.code # 0 THEN Raise(cp.w, ClickException(cmd, cp.code))
                             ELSE Return(cp.w, "None")
                : cp \in subprocess_run(g.w, cmd)}
        : g \in batch_or_yes(w, "run")}

\* ' '.join(seq): the command line is kept as the sequence of its fragments
RECURSIVE join(_, _)
join(sep, words) ==
    IF words = <<>> THEN <<>>
    ELSE IF Len(words) = 1 THEN <<Head(words)>>
    ELSE <<Head(words), sep>> \o join(sep, Tail(words))

run_apt_install_NeverYes(w) ==
    IF Cardinality(w._system_packages) = 0 THEN {Return(w, "None")}
    ELSE UNION {runcmd(w, <<"sudo apt-get install ">> \o join(" ", order))
                  : order \in Orders(w._system_packages)}
run_apt_install(w) ==
    IF Cardinality(w._system_packages) = 0 THEN {Return(w, "None")}
    ELSE LET cmd == <<"sudo apt-get install ">> \o (IF w.batch THEN <<"-y ">> ELSE <<>>)
         IN  UNION {runcmd(w, cmd \o join(" ", order)) : order \in Orders(w._system_packages)}

restart_cmd(srv) == <<"sudo service ", srv, " restart">>
fallback_cmd(srv) == <<"sudo /etc/init.d/", srv, "  restart">>

\* the body of the for loop: try / except Exception / try / except Exception
restart_one_FallbackFailureEscapes(w, srv) ==
    UNION {
        IF ~Raised(r) THEN {r} ELSE runcmd(r.w, fallback_cmd(srv))
        : r \in runcmd(w, restart_cmd(srv))}
restart_one(w, srv) ==
    UNION {
        IF ~Raised(r) THEN {r}
        ELSE {IF Raised(r2) THEN Return(r2.w, "None") ELSE r2
                : r2 \in runcmd(r.w, fallback_cmd(srv))}
        : r \in runcmd(w, restart_cmd(srv))}

RECURSIVE restart_all(_, _)
restart_all(w, srvs) ==
    IF srvs = <<>> THEN {Return(w, "None")}
    ELSE UNION {
        IF Raised(r) THEN {r} ELSE restart_all(r.w, Tail(srvs))
        : r \in restart_one(w, Head(srvs))}

\* the test "not ifroot() and False" that guards the early return
finish_skip(root) == (~root) /\ FALSE

\* a restart of the services that opens no scope around the loop
restart_services_NoScope(w) ==
    IF Cardinality(w._services) = 0 THEN {Return(w, "None")}
    ELSE UNION {
        IF g.ret # "True" THEN {Return(g.w, "None")}
        ELSE UNION {restart_all(g.w, srvorder) : srvorder \in Orders(g.w._services)}
        : g \in batch_or_yes(w, "Restart services")}
restart_services(w) ==
    IF Cardinality(w._services) = 0 THEN {Return(w, "None")}
    ELSE UNION {
        IF g.ret # "True" THEN {Return(g.w, "None")}
        ELSE LET f == override_enter(g.w, TRUE)
             IN  {[r EXCEPT !.w = override_exit(r.w, f.old, Raised(r))]
                    : r \in UNION {restart_all(f.w, srvorder) : srvorder \in Orders(f.w._services)}}
        : g \in batch_or_yes(w, "Restart services")}

\* a finish that restarts the services whatever became of the install
finish_RestartsAnyway(w, root) ==
    UNION {restart_services(a.w) : a \in run_apt_install(w)}
finish(w, root) ==
    IF finish_skip(root) THEN {Return(w, "None")}
    ELSE UNION {
        IF Raised(a) THEN {a} ELSE restart_services(a.w)
        : a \in run_apt_install(w)}

\* -------------------------------------------------------------- filesystem
\* A path is the sequence of its components; os.path.join appends.
EnvDir == <<"env">>
BinDir == EnvDir \o <<"bin">>
PullSh == EnvDir \o <<"bin", "pull.sh">>
SupervisorDir == <<"etc", "supervisor", "conf.d">>
LogrotateDir == <<"etc", "logrotate.d">>
SupervisorConf == SupervisorDir \o <<"p.conf">>
LogrotateConf == LogrotateDir \o <<"p.conf">>

IsPrefix(p, q) == Len(p) <= Len(q) /\ SubSeq(q, 1, Len(p)) = p
Parent(p) == SubSeq(p, 1, Len(p) - 1)

\* two of KNOWN_REPOS; a repository is cloned into the directory named by
\* its nickname, below the current directory
Repos ==
    {[nickname |-> "lino", git_repo |-> "https://github.com/lino-framework/lino"],
     [nickname |-> "xl", git_repo |-> "https://github.com/lino-framework/xl"]}
RepoDirs == {<<repo.nickname>> : repo \in Repos}
Branch == "master"                           \* DEFAULTSECTION.get('branch')

\* the paths of the configure command, with the default values of its options
ConfFile(root) ==                            \* CONF_FILES
    IF root THEN <<"etc", "getlino", "getlino.conf">> ELSE <<"home", "lino", ".getlino.conf">>
LogBase == <<"var", "log", "lino">>          \* --log-base
BackupsBase == <<"var", "backups", "lino">>  \* --backups-base
SitesBase(root) ==                           \* default_sites_base()
    IF root THEN <<"usr", "local", "lino">> ELSE <<"home", "lino", "lino">>
LocalPrefix == "lino_local"                  \* --local-prefix
Aliases == <<"home", "lino", ".lino_bash_aliases">>
Healthcheck == <<"usr", "local", "bin", "healthcheck.sh">>
MonitConf == <<"etc", "monit", "conf.d", "lino.conf">>
LibreofficeConf == SupervisorDir \o <<"libreoffice.conf">>
SupervisorLogrotate == LogrotateDir \o <<"supervisor.conf">>

ConfigurePaths ==
    UNION {{ConfFile(r), SitesBase(r), SitesBase(r) \o <<LocalPrefix>>,
            SitesBase(r) \o <<LocalPrefix, "__init__.py">>,
            SitesBase(r) \o <<LocalPrefix, "settings.py">>} : r \in BOOLEAN}
    \cup {Parent(ConfFile(TRUE)), LogBase, BackupsBase, Aliases, Healthcheck, MonitConf,
          LibreofficeConf, SupervisorLogrotate}

\* the paths whose state is tracked; the directories that hold the
\* configuration files belong to the host and are always present
Paths == {EnvDir, BinDir, PullSh, SupervisorConf, LogrotateConf} \cup RepoDirs \cup ConfigurePaths
SystemDirs ==
    {<<>>, SupervisorDir, LogrotateDir, <<"home", "lino">>, <<"usr", "local", "bin">>,
     <<"etc", "monit", "conf.d">>}

UserGroup == "www-data"                      \* DEFAULTSECTION.get('usergroup')
ProcGroup(root) == IF root THEN "root" ELSE "lino"
Umask == 18                                  \* 0o022

Absent == [kind |-> "none", content |-> "", mode |-> 0, group |-> ""]

RECURSIVE BitOr(_, _)
BitOr(a, b) ==
    IF a = 0 THEN b ELSE IF b = 0 THEN a
    ELSE 2 * BitOr(a \div 2, b \div 2) + (IF a % 2 = 1 \/ b % 2 = 1 THEN 1 ELSE 0)
RECURSIVE BitXor(_, _)
BitXor(a, b) ==
    IF a = 0 THEN b ELSE IF b = 0 THEN a
    ELSE 2 * BitXor(a \div 2, b \div 2) + (IF a % 2 # b % 2 THEN 1 ELSE 0)
RECURSIVE BitAndNot(_, _)
BitAndNot(a, b) ==
    IF a = 0 THEN 0
    ELSE 2 * BitAndNot(a \div 2, b \div 2) + (IF a % 2 = 1 /\ b % 2 = 0 THEN 1 ELSE 0)

S_ISGID == 1024
S_IRUSR == 256
S_IWUSR == 128
S_IXUSR == 64
S_IRGRP == 32
S_IWGRP == 16
S_IXGRP == 8
S_IROTH == 4
S_IXOTH == 1
S_IMODE(m) == m % 4096

exists(fs, p) == fs[p].kind # "none"
isdir(fs, p) == fs[p].kind = "dir"
dir_present(fs, p) == p \in SystemDirs \/ (p \in DOMAIN fs /\ isdir(fs, p))

OSError == [type |-> "OSError", cmd |-> <<>>, code |-> 0]
TemplateNotFound == [type |-> "TemplateNotFound", cmd |-> <<>>, code |-> 0]

rmtree(fs, p) == [q \in DOMAIN fs |-> IF IsPrefix(p, q) THEN Absent ELSE fs[q]]
remove(fs, p) == [fs EXCEPT ![p] = Absent]
chown(fs, p, g) == [fs EXCEPT ![p].group = g]
chmod(fs, p, m) == [fs EXCEPT ![p].mode = m]

\* os.makedirs(p): p and every missing ancestor, with mode 0o777 & ~umask
makedirs(fs, root, p) ==
    [q \in DOMAIN fs |->
        IF IsPrefix(q, p) /\ ~exists(fs, q)
        THEN [kind |-> "dir", content |-> "", mode |-> BitAndNot(511, Umask), group |-> ProcGroup(root)]
        ELSE fs[q]]

\* open(p, 'w').write(content): truncates an existing file (mode and group
\* stay), creates a missing one with mode 0o666 & ~umask
open_write(w, root, p, content) ==
    IF ~dir_present(w.fs, Parent(p)) \/ isdir(w.fs, p) THEN Raise(w, OSError)
    ELSE IF exists(w.fs, p)
         THEN Return([w EXCEPT !.fs[p].content = content], "None")
         ELSE Return([w EXCEPT !.fs[p] = [kind |-> "file", content |-> content,
                                          mode |-> BitAndNot(438, Umask),
                                          group |-> ProcGroup(root)]], "None")

check_overwrite_RemovesAnyway(w, pth) ==
    IF ~exists(w.fs, pth) THEN {Return(w, "True")}
    ELSE {Return([a.w EXCEPT !.fs = rmtree(@, pth)], a.ret)
            : a \in yes_or_no(w, "Overwrite existing file", "True")}
check_overwrite(w, pth) ==
    IF ~exists(w.fs, pth) THEN {Return(w, "True")}
    ELSE IF isdir(w.fs, pth)
         THEN {IF a.ret = "True" THEN Return([a.w EXCEPT !.fs = rmtree(@, pth)], "True")
                                 ELSE Return(a.w, "False")
                 : a \in yes_or_no(w, "Overwrite existing directory", "True")}
         ELSE {IF a.ret = "True" THEN Return([a.w EXCEPT !.fs = remove(@, pth)], "True")
                                 ELSE Return(a.w, "False")
                 : a \in yes_or_no(w, "Overwrite existing file", "True")}

\* a target mode that does not look at the executable flag
target_mode_ExecutableIgnored(is_dir, executable) ==
    LET m0 == BitOr(S_IRGRP, S_IWGRP)
        m1 == BitOr(m0, BitOr(S_IRUSR, S_IWUSR))
        m2 == BitOr(m1, S_IROTH)
    IN  IF is_dir THEN BitOr(m2, BitOr(BitOr(S_ISGID, S_IXUSR), BitOr(S_IXGRP, S_IXOTH)))
        ELSE m2
\* the mode check_permissions wants the path to have
target_mode(is_dir, executable) ==
    LET m0 == BitOr(S_IRGRP, S_IWGRP)
        m1 == BitOr(m0, BitOr(S_IRUSR, S_IWUSR))
        m2 == BitOr(m1, S_IROTH)
    IN  IF is_dir THEN BitOr(m2, BitOr(BitOr(S_ISGID, S_IXUSR), BitOr(S_IXGRP, S_IXOTH)))
        ELSE IF executable THEN BitOr(m2, BitOr(S_IXUSR, BitOr(S_IXGRP, S_IXOTH)))
        ELSE m2

\* a group check that does not ask whether the session is privileged
check_group_AnyUser(w, root, pth, si) ==
    IF si.group # UserGroup
    THEN {IF g.ret = "True" THEN Return([g.w EXCEPT !.fs = chown(@, pth, UserGroup)], "None")
                            ELSE Return(g.w, "None")
            : g \in batch_or_yes(w, "Set group owner")}
    ELSE {Return(w, "None")}
\* the first half of check_permissions: the group owner, as root only
check_group(w, root, pth, si) ==
    IF root /\ si.group # UserGroup
    THEN {IF g.ret = "True" THEN Return([g.w EXCEPT !.fs = chown(@, pth, UserGroup)], "None")
                            ELSE Return(g.w, "None")
            : g \in batch_or_yes(w, "Set group owner")}
    ELSE {Return(w, "None")}

\* a check_permissions that adds the wanted bits to the mode the path has
check_permissions_AddsBits(w, root, pth, executable) ==
    IF ~exists(w.fs, pth) THEN {Raise(w, OSError)}
    ELSE LET si == w.fs[pth]
             mode == target_mode(si.kind = "dir", executable)
             imode == S_IMODE(si.mode)
         IN  UNION {
                IF BitXor(imode, mode) # 0
                THEN {IF g.ret = "True"
                      THEN Return([g.w EXCEPT !.fs = chmod(@, pth, BitOr(imode, mode))], "None")
                      ELSE Return(g.w, "None")
                        : g \in batch_or_yes(a.w, "Set mode")}
                ELSE {Return(a.w, "None")}
                : a \in check_group(w, root, pth, si)}
check_permissions(w, root, pth, executable) ==
    IF ~exists(w.fs, pth) THEN {Raise(w, OSError)}
    ELSE LET si == w.fs[pth]
             mode == target_mode(si.kind = "dir", executable)
             imode == S_IMODE(si.mode)
         IN  UNION {
                IF BitXor(imode, mode) # 0
                THEN {IF g.ret = "True" THEN Return([g.w EXCEPT !.fs = chmod(@, pth, mode)], "None")
                                        ELSE Return(g.w, "None")
                        : g \in batch_or_yes(a.w, "Set mode")}
                ELSE {Return(a.w, "None")}
                : a \in check_group(w, root, pth, si)}

\* a write_file that does not look at what check_overwrite returned
write_file_WritesAnyway(w, root, pth, content, executable) ==
    UNION {
        LET o == open_write(c.w, root, pth, content)
        IN  IF Raised(o) THEN {o}
            ELSE LET f == override_enter(o.w, TRUE)
                 IN  {LET x == [p EXCEPT !.w = override_exit(p.w, f.old, Raised(p))]
                      IN  IF Raised(x) THEN x ELSE Return(x.w, "True")
                        : p \in check_permissions(f.w, root, pth, executable)}
        : c \in check_overwrite(w, pth)}
\* a write_file that never leaves the scope it opened
write_file_LeavesScopeOpen(w, root, pth, content, executable) ==
    UNION {
        IF c.ret # "True" THEN {Return(c.w, "None")}
        ELSE LET o == open_write(c.w, root, pth, content)
             IN  IF Raised(o) THEN {o}
                 ELSE LET f == override_enter(o.w, TRUE)
                      IN  {IF Raised(p) THEN p ELSE Return(p.w, "True")
                             : p \in check_permissions(f.w, root, pth, executable)}
        : c \in check_overwrite(w, pth)}
\* a write_file that checks the permissions outside any scope
write_file_NoScope(w, root, pth, content, executable) ==
    UNION {
        IF c.ret # "True" THEN {Return(c.w, "None")}
        ELSE LET o == open_write(c.w, root, pth, content)
             IN  IF Raised(o) THEN {o}
                 ELSE {IF Raised(p) THEN p ELSE Return(p.w, "True")
                         : p \in check_permissions(o.w, root, pth, executable)}
        : c \in check_overwrite(w, pth)}
write_file(w, root, pth, content, executable) ==
    UNION {
        IF c.ret # "True" THEN {Return(c.w, "None")}
        ELSE LET o == open_write(c.w, root, pth, content)
             IN  IF Raised(o) THEN {o}
                 ELSE LET f == override_enter(o.w, TRUE)
                      IN  {LET x == [p EXCEPT !.w = override_exit(p.w, f.old, Raised(p))]
                           IN  IF Raised(x) THEN x ELSE Return(x.w, "True")
                             : p \in check_permissions(f.w, root, pth, executable)}
        : c \in check_overwrite(w, pth)}

write_supervisor_conf(w, root, filename, content) ==
    UNION {
        IF Raised(r) THEN {r} ELSE must_restart(r.w, "supervisor")
        : r \in write_file(w, root, SupervisorDir \o <<filename>>, content, FALSE)}

LOGROTATE_CONF(logfile) == "logrotate " \o logfile

write_logrotate_conf(w, root, conffile, logfile) ==
    {IF Raised(r) THEN r ELSE Return(r.w, "None")
        : r \in write_file(w, root, LogrotateDir \o <<conffile>>, LOGROTATE_CONF(logfile), FALSE)}

\* the templates shipped with the package, and what rendering one yields
Templates == {"pull.sh"}
render(tplname) == "rendered " \o tplname

jinja_write(w, root, pth, tplname) ==
    {IF c.ret # "True" THEN Return(c.w, "False")
     ELSE LET name == IF tplname = "" THEN pth[Len(pth)] ELSE tplname
          IN  IF name \notin Templates THEN Raise(c.w, TemplateNotFound)
              ELSE LET o == open_write(c.w, root, pth, render(name))
                   IN  IF Raised(o) THEN o ELSE Return(o.w, "True")
        : c \in check_overwrite(w, pth)}

make_file_executable(w, file_path) ==
    IF ~exists(w.fs, file_path) THEN Raise(w, OSError)
    ELSE Return([w EXCEPT !.fs = chmod(@, file_path, 509)], "None")

\* virtualenv.create_environment(envdir): of the tree it builds the model
\* keeps the bin directory
create_environment(w, root, envdir) ==
    [w EXCEPT !.fs = makedirs(@, root, envdir \o <<"bin">>)]

\* the "if ok:" block that ends check_virtualenv
virtualenv_tail(w, root, envdir, ok) ==
    LET pull_sh_path == envdir \o <<"bin", "pull.sh">>
    IN  IF ~ok THEN {Return(w, "False")}
        ELSE {IF Raised(j) THEN j
              ELSE LET m == make_file_executable(j.w, pull_sh_path)
                   IN  IF Raised(m) THEN m ELSE Return(m.w, "True")
                : j \in IF ~exists(w.fs, pull_sh_path)
                        THEN jinja_write(w, root, pull_sh_path, "")
                        ELSE {Return(w, "None")}}

\* a check_virtualenv that asks before it takes an existing path as it is
check_virtualenv_AsksAnyway(w, root, envdir) ==
    UNION {
        IF exists(g.w.fs, envdir) THEN virtualenv_tail(g.w, root, envdir, g.ret = "True")
        ELSE IF g.ret # "True" THEN virtualenv_tail(g.w, root, envdir, FALSE)
        ELSE UNION {
            IF Raised(p) THEN {p}
            ELSE virtualenv_tail(create_environment(p.w, root, envdir), root, envdir, TRUE)
            : p \in check_permissions([g.w EXCEPT !.fs = makedirs(@, root, envdir)], root, envdir, FALSE)}
        : g \in batch_or_yes(w, "Create virtualenv")}
check_virtualenv(w, root, envdir) ==
    IF exists(w.fs, envdir) THEN virtualenv_tail(w, root, envdir, TRUE)
    ELSE UNION {
        IF g.ret # "True" THEN virtualenv_tail(g.w, root, envdir, FALSE)
        ELSE UNION {
            IF Raised(p) THEN {p}
            ELSE virtualenv_tail(create_environment(p.w, root, envdir), root, envdir, TRUE)
            : p \in check_permissions([g.w EXCEPT !.fs = makedirs(@, root, envdir)], root, envdir, FALSE)}
        : g \in batch_or_yes(w, "Create virtualenv")}

\* ------------------------------------------------------------ repositories
clone_cmd(repo) ==
    <<"git clone --depth 1 -b ", Branch, " ", repo.git_repo, " ", repo.nickname>>

\* what git has done when the clone command ended: with exit code 0 the
\* directory of the repository is there, otherwise git has left nothing
git_clone(w0, r, root, repo) ==
    IF Len(r.w.cmds) > Len(w0.cmds) /\ ~Raised(r)
    THEN [r EXCEPT !.w.fs = makedirs(@, root, <<repo.nickname>>)]
    ELSE r

\* a clone_repo that does not look whether the directory exists
clone_repo_AlwaysClones(w, root, repo) ==
    {git_clone(w, r, root, repo) : r \in runcmd(w, clone_cmd(repo))}
clone_repo(w, root, repo) ==
    IF ~exists(w.fs, <<repo.nickname>>)
    THEN {git_clone(w, r, root, repo) : r \in runcmd(w, clone_cmd(repo))}
    ELSE {Return(w, "None")}

\* ------------------------------------------------------------- user groups
\* the failure check_usergroup raises; the fragments of its message are
\* kept in the field cmd, the backquotes around whoami as parentheses
UsergroupError(user, usergroup) ==
    [type |-> "ClickException",
     cmd |-> <<"You ", user, " don't belong to the ", usergroup,
               " user group.  Maybe you want to run:", "sudo adduser (whoami) ", usergroup>>,
     code |-> 0]

getuser(root) == IF root THEN "root" ELSE "lino"

\* a check_usergroup that lets every user pass
check_usergroup_AlwaysPasses(w, root, groups, usergroup) == {Return(w, "None")}
check_usergroup(w, root, groups, usergroup) ==
    IF root THEN {Return(w, "None")}
    ELSE IF \E g \in groups : g = usergroup THEN {Return(w, "None")}
    ELSE {Raise(w, UsergroupError(getuser(root), usergroup))}

\* ------------------------------------------------------ the configure script
\* (src/getlino/configure.py, function configure).  In the script "batch"
\* is the parameter of configure, the value the Installer was made with.
Abort == [type |-> "Abort", cmd |-> <<>>, code |-> 0]
TypeError == [type |-> "TypeError", cmd |-> <<>>, code |-> 0]

\* the next statement runs unless the one before has raised
Then(rs, next(_)) == UNION {IF Raised(r) THEN {r} ELSE next(r.w) : r \in rs}

\* with i.override_batch(b): body
Scoped(w, b, body(_)) ==
    LET f == override_enter(w, b)
    IN  {[r EXCEPT !.w = override_exit(r.w, f.old, Raised(r))] : r \in body(f.w)}

\* the idiom "batch or i.yes_or_no(msg, default=True)"
\* a gate of the script that asks whatever the batch argument is
configure_gate_AlwaysAsks(w, batch_arg, msg) == getchar_loop(w, msg)
configure_gate(w, batch_arg, msg) ==
    IF batch_arg THEN {Return(w, "True")} ELSE yes_or_no(w, msg, "True")

\* the options of configure the model follows, in the order of their
\* declaration, and which of them are declared root_only
CONFIGURE_OPTIONS ==
    <<"local_prefix", "shared_env", "clone", "backups_base", "log_base", "appy", "redis",
      "devtools", "https", "ldap", "monit", "db_engine">>
RootOnly == {"local_prefix", "backups_base", "log_base", "appy", "redis", "https", "ldap", "monit"}
Flags == {"clone", "appy", "redis", "devtools", "https", "ldap", "monit"}

\* str(v) of a value of an option: the flags are Python booleans, the
\* other values are strings already
str(k, v) == IF k \in Flags
             THEN (IF v THEN "True" ELSE "False")
             ELSE v

\* s.rstrip("/"), for the strings a user types in the sessions followed
rstrip(s) ==
    CASE s = "env/" -> "env"
      [] s = "/var/log/lino/" -> "/var/log/lino"
      [] s = "/" -> ""
      [] OTHER -> s

\* lines 219-222: what is stored of an answer: a string loses its trailing
\* slashes, then str() is applied
normalised(k, answer) == IF k \in Flags THEN str(k, answer) ELSE str(k, rstrip(answer))

\* o.root_only, which add() sets from its argument
\* a declaration that marks no option
root_only_Never(k) == FALSE
root_only(k) == k \in RootOnly

\* CONFIG.set(CONFIG.default_section, k, s)
config_set(o, k, s) == [o EXCEPT ![k] = s, !.unset = @ \ {k}]

\* DEFAULTSECTION.getboolean(k): None, which counts as false, for an option
\* that is not set
getboolean(o, k) == k \notin o.unset /\ o[k] \in {"True", "true", "1", "yes", "on"}

\* lines 205-223: the loop over CONFIGURE_OPTIONS, from the option at place
\* n on; p holds the parameters, a what the user answers when asked.  It
\* yields the default section and the prompts click.prompt has shown, each
\* with the answer as it was given.
RECURSIVE configure_options(_, _, _, _, _, _, _)
configure_options(n, root, batch_arg, p, a, o, asked) ==
    IF n > Len(CONFIGURE_OPTIONS) THEN [config |-> o, asked |-> asked]
    ELSE LET k == CONFIGURE_OPTIONS[n]
         IN  IF batch_arg
               THEN configure_options(n + 1, root, batch_arg, p, a,
                                      config_set(o, k, str(k, p[k])), asked)
             ELSE IF root_only(k) /\ ~root
               THEN configure_options(n + 1, root, batch_arg, p, a, o, asked)
             ELSE configure_options(n + 1, root, batch_arg, p, a,
                                    config_set(o, k, normalised(k, a[k])),
                                    Append(asked, [msg |-> k, answer |-> str(k, a[k])]))

\* lines 190-196: the directory of the configuration file
configure_prepare(w, root) ==
    LET pth == Parent(ConfFile(root))
    IN  IF ~dir_present(w.fs, pth)
        THEN {Return([w EXCEPT !.fs = makedirs(@, root, pth)], "None")}
        ELSE {Return(w, "None")}

\* lines 225-230: the start confirmation, then the configuration file
\* a configure that writes the file before it asks
configure_start_WritesFirst(w, root) ==
    {IF a.ret # "True" THEN Raise(open_write(a.w, root, ConfFile(root), "CONFIG").w, Abort)
     ELSE open_write(a.w, root, ConfFile(root), "CONFIG")
        : a \in yes_or_no(w, "Start configuring your system using above options?", "True")}
configure_start(w, root) ==
    {IF a.ret # "True" THEN Raise(a.w, Abort)
     ELSE open_write(a.w, root, ConfFile(root), "CONFIG")
        : a \in yes_or_no(w, "Start configuring your system using above options?", "True")}

\* lines 232-236
configure_upgrade(w, root, batch_arg) ==
    IF ~root THEN {Return(w, "None")}
    ELSE UNION {
        IF g.ret # "True" THEN {Return(g.w, "None")}
        ELSE Scoped(g.w, TRUE,
                    LAMBDA v : Then(runcmd(v, <<"apt-get update -y">>),
                                    LAMBDA u : runcmd(u, <<"apt-get upgrade -y">>)))
        : g \in configure_gate(w, batch_arg, "Upgrade the system?")}

\* lines 238-270: the requests, in the order of the script.  Of the names
\* of each list of packages the model keeps one: "git" for the four lists
\* every session asks for (238-242), "nginx" for the two of the web server
\* (245-246), the first name for each option.  No DbEngine sets
\* apt_packages, so what line 260 hands over is the empty string.
Apt(packages) == [kind |-> "apt_install", arg |-> packages]
Restart(srvname) == [kind |-> "must_restart", arg |-> srvname]
DbEngines == {"mysql", "postgresql", "sqlite3"}
DbService(db_engine) == IF db_engine = "sqlite3" THEN <<>> ELSE <<Restart(db_engine)>>

Requests(root, o) ==
    <<Apt(<<"git">>)>>
    \o (IF root THEN <<Apt(<<"nginx">>), Restart("nginx")>> ELSE <<>>)
    \o (IF getboolean(o, "devtools") THEN <<Apt(<<"swig", " ", "graphviz">>)>> ELSE <<>>)
    \o (IF getboolean(o, "monit") THEN <<Apt(<<"monit">>)>> ELSE <<>>)
    \o (IF getboolean(o, "redis") THEN <<Apt(<<"redis-server">>)>> ELSE <<>>)
    \o (IF "db_engine" \notin o.unset /\ o.db_engine \in DbEngines
        THEN <<Apt(<<>>)>> \o DbService(o.db_engine) ELSE <<>>)
    \o (IF getboolean(o, "appy") THEN <<Apt(<<"tidy">>), Restart("supervisor")>> ELSE <<>>)
    \o (IF getboolean(o, "ldap") THEN <<Apt(<<"slapd">>)>> ELSE <<>>)

RECURSIVE request_all(_, _)
request_all(w, reqs) ==
    IF reqs = <<>> THEN {Return(w, "None")}
    ELSE Then(IF Head(reqs).kind = "apt_install" THEN apt_install(w, Head(reqs).arg)
                                                 ELSE must_restart(w, Head(reqs).arg),
              LAMBDA v : request_all(v, Tail(reqs)))

\* lines 278-281, 298-302 and 317-319: a base directory is made when it is missing
configure_makedirs(w, root, batch_arg, pth, msg) ==
    IF exists(w.fs, pth) THEN {Return(w, "None")}
    ELSE {IF g.ret = "True" THEN Return([g.w EXCEPT !.fs = makedirs(@, root, pth)], "None")
                            ELSE Return(g.w, "None")
            : g \in configure_gate(w, batch_arg, msg)}

\* lines 288-293: --clone stops at the missing --shared-env, or at the call
\* check_virtualenv(envdir), which lacks the argument "context"
configure_clone(w, p, o) ==
    IF ~p.clone THEN {Return(w, "None")}
    ELSE IF "shared_env" \in o.unset \/ o.shared_env = "" THEN {Raise(w, ClickException(<<"Cannot --clone without --shared-env">>, 0))}
    ELSE {Raise(w, TypeError)}

\* lines 322-328
configure_local_prefix(w, root, batch_arg, pth) ==
    IF exists(w.fs, pth) THEN check_permissions(w, root, pth, FALSE)
    ELSE UNION {
        IF g.ret = "True"
        THEN check_permissions([g.w EXCEPT !.fs = makedirs(@, root, pth)], root, pth, FALSE)
        ELSE {Return(g.w, "None")}
        : g \in configure_gate(w, batch_arg, "Create shared settings package")}

\* lines 329-331
configure_init_py(w, root, pth) ==
    Scoped(w, TRUE,
           LAMBDA v : Then(check_permissions(v, root, pth, FALSE),
                           LAMBDA u : write_file(u, root, pth \o <<"__init__.py">>, "", FALSE)))

\* lines 336-344
configure_aliases(w, root) ==
    IF root THEN {Return(w, "None")}
    ELSE Then(write_file(w, root, Aliases, "BASH_ALIASES", FALSE),
              LAMBDA v : check_permissions(v, root, Aliases, FALSE))

\* lines 351-353
configure_monit(w, root, o) ==
    IF ~(root /\ getboolean(o, "monit")) THEN {Return(w, "None")}
    ELSE Then(write_file(w, root, Healthcheck, "HEALTHCHECK_SH", TRUE),
              LAMBDA v : write_file(v, root, MonitConf, "MONIT_CONF", FALSE))

RECURSIVE run_all(_, _)
run_all(w, lines) ==
    IF lines = <<>> THEN {Return(w, "None")}
    ELSE Then(runcmd(w, Head(lines)), LAMBDA v : run_all(v, Tail(lines)))

CertbotCmds ==
    << <<"wget https://dl.eff.org/certbot-auto">>,
       <<"mv certbot-auto /usr/local/bin/certbot-auto">>,
       <<"chown root /usr/local/bin/certbot-auto">>,
       <<"chmod 0755 /usr/local/bin/certbot-auto">>,
       <<"certbot-auto -n">>,
       <<"certbot-auto register --agree-tos -m ", "joe@example.com", " -n">> >>

\* lines 366-376; shutil.which tells whether certbot-auto is installed
configure_certbot(w, root, batch_arg, o) ==
    IF ~(root /\ getboolean(o, "https")) THEN {Return(w, "None")}
    ELSE UNION {
        IF which THEN {Return(w, "None")}
        ELSE UNION {
            IF g.ret # "True" THEN {Return(g.w, "None")}
            ELSE Scoped(g.w, TRUE, LAMBDA v : run_all(v, CertbotCmds))
            : g \in configure_gate(w, batch_arg, "Install certbot-auto?")}
        : which \in BOOLEAN}

\* lines 377-378
configure_renewal(w, root, batch_arg, o) ==
    IF ~(root /\ getboolean(o, "https")) THEN {Return(w, "None")}
    ELSE UNION {
        IF g.ret # "True" THEN {Return(g.w, "None")}
        ELSE runcmd(g.w, <<"CERTBOT_AUTO_RENEW">>)
        : g \in configure_gate(w, batch_arg, "Set up automatic certificate renewal?")}

\* the statement that runs when the script is at a step
Statement(label, w, root, batch_arg, p, o) ==
    CASE label = "prepare" -> configure_prepare(w, root)
      [] label = "start" -> configure_start(w, root)
      [] label = "upgrade" -> configure_upgrade(w, root, batch_arg)
      [] label = "clone" -> configure_clone(w, p, o)
      [] label = "local_prefix" ->
            IF "local_prefix" \in o.unset THEN {Raise(w, TypeError)}
            ELSE configure_local_prefix(w, root, batch_arg, SitesBase(root) \o <<LocalPrefix>>)
      [] label = "init_py" -> configure_init_py(w, root, SitesBase(root) \o <<LocalPrefix>>)
      [] label = "settings_py" ->
            write_file(w, root, SitesBase(root) \o <<LocalPrefix, "settings.py">>,
                       "LOCAL_SETTINGS", FALSE)
      [] label = "aliases" -> configure_aliases(w, root)
      [] label = "logrotate" ->
            IF root THEN write_logrotate_conf(w, root, "supervisor.conf",
                                              "/var/log/supervisor/supervisord.log")
                    ELSE {Return(w, "None")}
      [] label = "monit" -> configure_monit(w, root, o)
      [] label = "appy" ->
            IF root /\ getboolean(o, "appy")
            THEN write_supervisor_conf(w, root, "libreoffice.conf", "LIBREOFFICE_SUPERVISOR_CONF")
            ELSE {Return(w, "None")}
      [] label = "mysql" ->
            IF root /\ "db_engine" \notin o.unset /\ o.db_engine = "mysql" THEN runcmd(w, <<"mysql_secure_installation">>)
                                             ELSE {Return(w, "None")}
      [] label = "certbot" -> configure_certbot(w, root, batch_arg, o)
      [] label = "renewal" -> configure_renewal(w, root, batch_arg, o)
      [] label = "ldap" ->
            IF root /\ getboolean(o, "ldap") THEN runcmd(w, <<"dpkg-reconfigure slapd">>)
                              ELSE {Return(w, "None")}
      [] label = "completed" -> {Return(w, "None")}

\* ------------------------------------------------------------ state machine
VARIABLES
    batch,              \* Installer.batch
    root,               \* os.geteuid() == 0, what ifroot() reports
    _services,          \* Installer._services
    _system_packages,   \* Installer._system_packages
    fs,                 \* the filesystem of the host
    usergroups,         \* os.getgroups(), by name: the groups of the calling user
    params,             \* the values configure was called with: its parameters
    options,            \* the default section of CONFIG, what DEFAULTSECTION reads
    pc,                 \* the step of the configure script that comes next (0: no script)
    scopes,             \* the open override_batch scopes of the caller, innermost first
    batch0,             \* the batch argument the Installer was constructed with
    finished,           \* the caller's script has called finish()
    requested,          \* every package name the caller has asked for so far
    op,                 \* the last call: [name, seq, flag, text]
    ret,                \* what it returned
    exc,                \* what it raised
    cmds,               \* the command lines it executed, with their exit codes
    prompts,            \* the confirmations it asked, with the answers
    reads,              \* how many characters it read from the terminal
    typed,              \* the characters a yes_or_no called by the script has read
    repeated            \* the call is the same call again (operation and arguments), right
                        \* after one that ended well and was granted all it asked

vars == <<batch, root, _services, _system_packages, fs, usergroups, params, options, pc, scopes, batch0, finished,
          requested, op, ret, exc, cmds, prompts, reads, typed, repeated>>

World ==
    [batch |-> batch, _services |-> _services, _system_packages |-> _system_packages,
     fs |-> fs, cmds |-> <<>>, prompts |-> <<>>, reads |-> 0, typed |-> <<>>, record |-> FALSE]

\* the same, with the characters read from the terminal put on record
Recorded(w) == [w EXCEPT !.record = TRUE]

Call(name, seq, flag, text) == [name |-> name, seq |-> seq, flag |-> flag, text |-> text]

\* the operations whose second call in a row the model tells from the first
TwiceOps == {"check_permissions", "check_virtualenv", "clone_repo"}

AllGranted(ps) == \A i \in DOMAIN ps : ps[i].answer = "True"

\* the call ended (returned or raised) with outcome r
Commit(call, r) ==
    /\ repeated' = /\ call.name \in TwiceOps
                   /\ op.name = call.name
                   /\ op.seq = call.seq
                   /\ op.flag = call.flag
                   /\ exc = NoExc
                   /\ AllGranted(prompts)
    /\ batch' = r.w.batch
    /\ _services' = r.w._services
    /\ _system_packages' = r.w._system_packages
    /\ fs' = r.w.fs
    /\ op' = call
    /\ ret' = r.ret
    /\ exc' = r.exc
    /\ cmds' = r.w.cmds
    /\ prompts' = r.w.prompts
    /\ reads' = r.w.reads
    /\ typed' = r.w.typed

\* the script goes on only while no failure is propagating
Running == exc.type = "none"

Messages == {"Start configuring your system using above options?", "OK?"}
ClientCmds == {<<"apt-get update -y">>, <<"mysql_secure_installation">>}

FsEmpty == [p \in Paths |-> Absent]

InitCommon ==
    /\ batch \in BOOLEAN
    /\ batch0 = batch
    /\ root \in BOOLEAN
    /\ _services = {}
    /\ _system_packages = {}
    /\ scopes = <<>>
    /\ finished = FALSE
    /\ requested = {}
    /\ op = Call("__init__", <<>>, "", "")
    /\ ret = "None"
    /\ exc = NoExc
    /\ cmds = <<>>
    /\ prompts = <<>>
    /\ reads = 0
    /\ typed = <<>>
    /\ repeated = FALSE

\* the groups a site maintainer has who was not added to the shared group
Groups == {"lino"}

\* the values of the parameters of configure, all switched off
NoOptions ==
    [local_prefix |-> "lino_local", shared_env |-> "", clone |-> FALSE,
     backups_base |-> "/var/backups/lino", log_base |-> "/var/log/lino",
     appy |-> FALSE, redis |-> FALSE, devtools |-> FALSE,
     https |-> FALSE, ldap |-> FALSE, monit |-> FALSE, db_engine |-> "sqlite3"]

\* the default section of CONFIG when no configuration file was found:
\* no option is set
NoConfig == [k \in Range(CONFIGURE_OPTIONS) \cup {"unset"} |->
                IF k = "unset" THEN Range(CONFIGURE_OPTIONS) ELSE ""]

\* the Installer is used by itself, not by the configure script
NoScript == params = NoOptions /\ options = NoConfig /\ pc = 0

Init == InitCommon /\ fs = FsEmpty /\ usergroups = Groups /\ NoScript

\* ---- the gate and the scopes
YesOrNo ==
    \E msg \in Messages, default \in {"True", "False"} :
        /\ Running
        /\ \E r \in yes_or_no(Recorded(World), msg, default) :
              Commit(Call("yes_or_no", <<>>, default, msg), r)
        /\ UNCHANGED <<root, usergroups, params, options, pc, scopes, batch0, finished, requested>>

OverrideEnter ==
    \E b \in BOOLEAN :
        /\ Running
        /\ Len(scopes) < MaxDepth
        /\ LET f == override_enter(World, b)
           IN  /\ scopes' = <<[old |-> f.old, b |-> b]>> \o scopes
               /\ Commit(Call("override_batch.enter", <<>>, IF b THEN "True" ELSE "False", ""),
                         Return(f.w, "None"))
        /\ UNCHANGED <<root, usergroups, params, options, pc, batch0, finished, requested>>

\* leaving the with block: at its end, or because a failure propagates
\* through it (the finally clause); the failure keeps propagating
OverrideExit ==
    /\ scopes # <<>>
    /\ LET r == Return(override_exit(World, Head(scopes).old, ~Running), "None")
       IN  Commit(Call("override_batch.exit", <<>>, IF Head(scopes).b THEN "True" ELSE "False", ""),
                  [r EXCEPT !.exc = exc])
    /\ scopes' = Tail(scopes)
    /\ UNCHANGED <<root, usergroups, params, options, pc, batch0, finished, requested>>

\* ---- the accumulators
MustRestart ==
    \E srvname \in Services :
        /\ Running
        /\ \E r \in must_restart(World, srvname) :
              Commit(Call("must_restart", <<>>, "", srvname), r)
        /\ UNCHANGED <<root, usergroups, params, options, pc, scopes, batch0, finished, requested>>

\* the names a whitespace-separated list holds: every maximal run of
\* characters that are not whitespace
RECURSIVE Str(_)
Str(s) == IF s = <<>> THEN "" ELSE Head(s) \o Str(Tail(s))
NamesIn(s) ==
    {Str(SubSeq(s, ij[1], ij[2])) : ij \in
        {ij \in (1..Len(s)) \X (1..Len(s)) :
            /\ ij[1] <= ij[2]
            /\ \A k \in ij[1]..ij[2] : s[k] \notin Whitespace
            /\ (ij[1] = 1 \/ s[ij[1] - 1] \in Whitespace)
            /\ (ij[2] = Len(s) \/ s[ij[2] + 1] \in Whitespace)}}

\* the scripts ask for their packages before they call finish()
AptInstall ==
    \E packages \in SeqsUpTo(Chars, MaxLen) :
        /\ Running
        /\ ~finished
        /\ \E r \in apt_install(World, packages) :
              Commit(Call("apt_install", <<>>, "", ""), r)
        /\ requested' = requested \cup NamesIn(packages)
        /\ UNCHANGED <<root, usergroups, params, options, pc, scopes, batch0, finished>>

\* ---- the runner and the flush
Runcmd ==
    \E cmd \in ClientCmds :
        /\ Running
        /\ \E r \in runcmd(World, cmd) : Commit(Call("runcmd", cmd, "", ""), r)
        /\ UNCHANGED <<root, usergroups, params, options, pc, scopes, batch0, finished, requested>>

Finish ==
    /\ Running
    /\ ~finished
    /\ \E r \in finish(World, root) : Commit(Call("finish", <<>>, "", ""), r)
    /\ finished' = TRUE
    /\ UNCHANGED <<root, usergroups, params, options, pc, scopes, batch0, requested>>

\* ---- the filesystem mutators
\* the paths the caller hands to the general mutators: a directory with
\* something below it and a file to check, a file to write
ArgPaths == {EnvDir, PullSh}
WritePaths == {PullSh}

CheckOverwrite ==
    \E pth \in ArgPaths :
        /\ Running
        /\ \E r \in check_overwrite(World, pth) : Commit(Call("check_overwrite", pth, "", ""), r)
        /\ UNCHANGED <<root, usergroups, params, options, pc, scopes, batch0, finished, requested>>

WriteFile ==
    \E pth \in WritePaths, executable \in BOOLEAN :
        /\ Running
        /\ \E r \in write_file(World, root, pth, "new", executable) :
              Commit(Call("write_file", pth, IF executable THEN "True" ELSE "False", "new"), r)
        /\ UNCHANGED <<root, usergroups, params, options, pc, scopes, batch0, finished, requested>>

JinjaWrite ==
    \E pth \in WritePaths :
        /\ Running
        /\ \E r \in jinja_write(World, root, pth, "") : Commit(Call("jinja_write", pth, "", ""), r)
        /\ UNCHANGED <<root, usergroups, params, options, pc, scopes, batch0, finished, requested>>

WriteSupervisorConf ==
    /\ Running
    /\ \E r \in write_supervisor_conf(World, root, "p.conf", "new") :
          Commit(Call("write_supervisor_conf", SupervisorConf, "", "new"), r)
    /\ UNCHANGED <<root, usergroups, params, options, pc, scopes, batch0, finished, requested>>

WriteLogrotateConf ==
    /\ Running
    /\ \E r \in write_logrotate_conf(World, root, "p.conf", "lino.log") :
          Commit(Call("write_logrotate_conf", LogrotateConf, "", "lino.log"), r)
    /\ UNCHANGED <<root, usergroups, params, options, pc, scopes, batch0, finished, requested>>

CheckPermissions ==
    \E pth \in ArgPaths, executable \in BOOLEAN :
        /\ Running
        /\ \E r \in check_permissions(World, root, pth, executable) :
              Commit(Call("check_permissions", pth, IF executable THEN "True" ELSE "False", ""), r)
        /\ UNCHANGED <<root, usergroups, params, options, pc, scopes, batch0, finished, requested>>

CheckVirtualenv ==
    /\ Running
    /\ \E r \in check_virtualenv(World, root, EnvDir) :
          Commit(Call("check_virtualenv", EnvDir, "", ""), r)
    /\ UNCHANGED <<root, usergroups, params, options, pc, scopes, batch0, finished, requested>>

\* what the host may hold when the session starts: nothing yet, or the
\* files and directories an earlier, unrelated installation has left
Dir(mode, group) == [kind |-> "dir", content |-> "", mode |-> mode, group |-> group]
File(content, mode, group) == [kind |-> "file", content |-> content, mode |-> mode, group |-> group]
FsOld ==
    [p \in Paths |-> IF p \in {EnvDir, BinDir} THEN Dir(493, "lino")
                     ELSE IF p \in {PullSh, SupervisorConf, LogrotateConf} THEN File("old", 420, "lino")
                     ELSE Absent]
\* or an empty directory where the environment is to be
FsBare == [p \in Paths |-> IF p = EnvDir THEN Dir(493, "lino") ELSE Absent]
HostFs == {FsEmpty, FsOld, FsBare}

InitFs == InitCommon /\ fs \in HostFs /\ usergroups = Groups /\ NoScript

\* ---- the repositories and the user groups
CloneRepo ==
    \E repo \in Repos :
        /\ Running
        /\ \E r \in clone_repo(World, root, repo) :
              Commit(Call("clone_repo", <<repo.nickname>>, "", ""), r)
        /\ UNCHANGED <<root, usergroups, params, options, pc, scopes, batch0, finished, requested>>

CheckUsergroup ==
    \E usergroup \in {UserGroup, "staff"} :
        /\ Running
        /\ \E r \in check_usergroup(World, root, usergroups, usergroup) :
              Commit(Call("check_usergroup", <<>>, "", usergroup), r)
        /\ UNCHANGED <<root, usergroups, params, options, pc, scopes, batch0, finished, requested>>

\* what os.getgroups() may give
GroupSets == {{"lino"}, {"lino", UserGroup}, {"staff", "dev"}}

\* one repository may be there already, cloned by an earlier run
FsCloned == [FsEmpty EXCEPT ![<<"xl">>] = Dir(493, "lino")]

InitRepo == InitCommon /\ fs \in {FsEmpty, FsCloned} /\ usergroups \in GroupSets /\ NoScript

\* ---- the configure script, statement by statement
Script ==
    <<"prepare", "options", "start", "upgrade", "packages",
      "log_base", "log_base.permissions", "backups_base", "backups_base.permissions",
      "finish", "clone", "sites_base", "sites_base.permissions",
      "local_prefix", "init_py", "settings_py", "aliases", "logrotate", "monit", "appy",
      "mysql", "certbot", "renewal", "ldap", "completed">>

At(label) == pc \in DOMAIN Script /\ Script[pc] = label

\* the base directories of lines 273-282 and 316-320; one whose option is
\* not set is passed over ("Strange: ... is empty", line 275-277)
BaseDirs(r) ==
    {[label |-> "log_base", pth |-> LogBase], [label |-> "backups_base", pth |-> BackupsBase],
     [label |-> "sites_base", pth |-> SitesBase(r)]}

\* the call of the script at its step ended with outcome r
Step(label, pth, r) ==
    /\ Commit(Call("configure", pth, "", label), r)
    /\ pc' = pc + 1
    /\ UNCHANGED <<root, usergroups, params, options, scopes, batch0>>

\* a statement that neither requests packages nor flushes them
Plain(label) ==
    /\ Running
    /\ \E r \in Statement(label, World, root, batch0, params, options) : Step(label, <<>>, r)
    /\ UNCHANGED <<finished, requested>>

CfgPrepare == At("prepare") /\ Plain("prepare")
CfgStart == At("start") /\ Plain("start")
CfgUpgrade == At("upgrade") /\ Plain("upgrade")
CfgClone == At("clone") /\ Plain("clone")
CfgLocalPrefix == At("local_prefix") /\ Plain("local_prefix")
CfgInitPy == At("init_py") /\ Plain("init_py")
CfgSettingsPy == At("settings_py") /\ Plain("settings_py")
CfgAliases == At("aliases") /\ Plain("aliases")
CfgLogrotate == At("logrotate") /\ Plain("logrotate")
CfgMonit == At("monit") /\ Plain("monit")
CfgAppy == At("appy") /\ Plain("appy")
CfgMysql == At("mysql") /\ Plain("mysql")
CfgCertbot == At("certbot") /\ Plain("certbot")
CfgRenewal == At("renewal") /\ Plain("renewal")
CfgLdap == At("ldap") /\ Plain("ldap")
CfgCompleted == At("completed") /\ Plain("completed")

\* what the user answers when click.prompt asks for the options: RETURN
\* for every one of them, which takes the value of the parameter, or the
\* values of a user who wants an office server and a shared environment
AnswerSets(p) ==
    {p, [NoOptions EXCEPT !.appy = TRUE, !.shared_env = "env/", !.log_base = "/var/log/lino/"]}

CfgOptions ==
    /\ At("options")
    /\ Running
    /\ \E a \in AnswerSets(params) :
          LET res == configure_options(1, root, batch0, params, a, options, <<>>)
          IN  /\ Commit(Call("configure", <<>>, "", "options"),
                        Return([World EXCEPT !.prompts = res.asked], "None"))
              /\ options' = res.config
    /\ pc' = pc + 1
    /\ UNCHANGED <<root, usergroups, params, scopes, batch0, finished, requested>>

CfgPackages ==
    /\ At("packages")
    /\ Running
    /\ \E r \in request_all(World, Requests(root, options)) : Step("packages", <<>>, r)
    /\ requested' = requested \cup
          UNION {NamesIn(Requests(root, options)[k].arg) :
                    k \in {k \in DOMAIN Requests(root, options) :
                              Requests(root, options)[k].kind = "apt_install"}}
    /\ UNCHANGED finished

CfgMakedirs ==
    \E d \in BaseDirs(root) :
        /\ At(d.label)
        /\ Running
        /\ \E r \in (IF d.label \in options.unset THEN {Return(World, "None")}
                   ELSE configure_makedirs(World, root, batch0, d.pth, "Create " \o d.label)) :
              Step(d.label, d.pth, r)
        /\ UNCHANGED <<finished, requested>>

CfgCheckPermissions ==
    \E d \in BaseDirs(root) :
        /\ At(d.label \o ".permissions")
        /\ Running
        /\ \E r \in (IF d.label \in options.unset THEN {Return(World, "None")}
                   ELSE check_permissions(World, root, d.pth, FALSE)) :
              Step(d.label \o ".permissions", d.pth, r)
        /\ UNCHANGED <<finished, requested>>

CfgFinish ==
    /\ At("finish")
    /\ Running
    /\ \E r \in finish(World, root) : Step("finish", <<>>, r)
    /\ finished' = TRUE
    /\ UNCHANGED requested

\* what an earlier configure --batch of root has left: the configuration
\* file with the options of an office server
OfficeServer == [NoOptions EXCEPT !.appy = TRUE, !.ldap = TRUE]
StoredConfig == configure_options(1, TRUE, TRUE, OfficeServer, NoOptions, NoConfig, <<>>).config
\* the option values of the sessions: nothing switched on; an office
\* server; a secured server with a database; a developer who clones
OptionSets ==
    {NoOptions,
     OfficeServer,
     [NoOptions EXCEPT !.https = TRUE, !.monit = TRUE, !.db_engine = "mysql"],
     [NoOptions EXCEPT !.devtools = TRUE, !.clone = TRUE, !.shared_env = "env"]}

FsConfigured ==
    [makedirs(FsEmpty, TRUE, Parent(ConfFile(TRUE))) EXCEPT
        ![ConfFile(TRUE)] = File("CONFIG of the earlier session", BitAndNot(438, Umask),
                                 ProcGroup(TRUE))]

\* configure starts on a fresh host, where CONFIG.read has found no file, or
\* on a host that was configured before, where the stored values are the
\* defaults of the parameters
InitConfigure ==
    /\ InitCommon
    /\ usergroups = Groups
    /\ \/ fs = FsEmpty /\ options = NoConfig /\ params \in OptionSets
       \/ fs = FsConfigured /\ options = StoredConfig /\ params = OfficeServer
    /\ pc = 1

\* the gate, the scopes of the caller and the runner
Next ==
    \/ YesOrNo
    \/ OverrideEnter
    \/ OverrideExit
    \/ Runcmd

Spec == Init /\ [][Next]_vars

\* the accumulators, the runner and the flush
NextAcc ==
    \/ MustRestart
    \/ AptInstall
    \/ Runcmd
    \/ Finish

SpecAcc == Init /\ [][NextAcc]_vars

\* the filesystem mutators and the runner
NextFs ==
    \/ CheckOverwrite
    \/ WriteFile
    \/ JinjaWrite
    \/ WriteSupervisorConf
    \/ WriteLogrotateConf
    \/ CheckPermissions
    \/ CheckVirtualenv
    \/ Runcmd

SpecFs == InitFs /\ [][NextFs]_vars

\* the file writer and the permission check inside the scopes of the caller
NextScopes ==
    \/ OverrideEnter
    \/ OverrideExit
    \/ WriteFile
    \/ CheckPermissions

SpecScopes == InitFs /\ [][NextScopes]_vars

\* the repositories, the user groups and the scopes of the caller
NextRepo ==
    \/ CloneRepo
    \/ CheckUsergroup
    \/ OverrideEnter
    \/ OverrideExit

SpecRepo == InitRepo /\ [][NextRepo]_vars

\* the configure command
NextConfigure ==
    \/ CfgPrepare
    \/ CfgOptions
    \/ CfgStart
    \/ CfgUpgrade
    \/ CfgPackages
    \/ CfgMakedirs
    \/ CfgCheckPermissions
    \/ CfgFinish
    \/ CfgClone
    \/ CfgLocalPrefix
    \/ CfgInitPy
    \/ CfgSettingsPy
    \/ CfgAliases
    \/ CfgLogrotate
    \/ CfgMonit
    \/ CfgAppy
    \/ CfgMysql
    \/ CfgCertbot
    \/ CfgRenewal
    \/ CfgLdap
    \/ CfgCompleted

SpecConfigure == InitConfigure /\ [][NextConfigure]_vars

\* ===================================================================== claims
Str2Bool(x) == x = "True"
Last(q) == q[Len(q)]

\* ---------------------------------------------------------------------- C1
\* C1: in batch mode yes_or_no(msg, default) reads no character, shows no
\* prompt and returns exactly the default it was given, for every message
\* and for either default.
C1_BatchReturnsDefault ==
    (op.name = "yes_or_no" /\ batch) =>
        /\ ret = op.flag
        /\ reads = 0
        /\ prompts = <<>>
        /\ exc = NoExc

\* a batch call whose default is the negative answer has returned it
C1_Witness ==
    /\ op.name = "yes_or_no"
    /\ batch
    /\ op.flag = "False"
    /\ ret = "False"

\* ---------------------------------------------------------------------- C2
\* C2: inside an override_batch(b) scope batch mode is b, and leaving the
\* scope puts back the value batch mode had on entry, whether the scope is
\* left at its end or by a failure raised inside it: at every moment batch
\* mode is the b of the innermost open scope, or the value the Installer
\* was constructed with when no scope is open, and every open scope
\* remembers the value of the scope around it.
C2_ScopeRestores ==
    /\ batch = (IF scopes = <<>> THEN batch0 ELSE Head(scopes).b)
    /\ \A i \in 1..Len(scopes) :
          scopes[i].old = (IF i = Len(scopes) THEN batch0 ELSE scopes[i + 1].b)

\* a scope that had changed batch mode was left by a failure, and batch
\* mode is back to what it was
C2_Witness ==
    /\ op.name = "override_batch.exit"
    /\ exc.type = "ClickException"
    /\ scopes = <<>>
    /\ Str2Bool(op.flag) # batch0
    /\ batch = batch0

\* ---------------------------------------------------------------------- C8
\* C8: when runcmd proceeds (batch mode, or the confirmation is granted) it
\* executes the command line exactly once; a non-zero exit status raises a
\* failure that carries the command line and the exit code, status 0
\* returns normally.
Granted(msg) == \E i \in DOMAIN prompts : prompts[i] = [msg |-> msg, answer |-> "True"]
Declined(msg) == \E i \in DOMAIN prompts : prompts[i] = [msg |-> msg, answer |-> "False"]

C8_RunsOnceAndReports ==
    (op.name = "runcmd" /\ (batch \/ Granted("run"))) =>
        /\ Len(cmds) = 1
        /\ cmds[1].line = op.seq
        /\ cmds[1].code # 0 => exc = [type |-> "ClickException", cmd |-> op.seq, code |-> cmds[1].code]
        /\ cmds[1].code = 0 => (exc = NoExc /\ ret = "None")

\* a confirmed command has failed and the failure names it
C8_Witness ==
    /\ op.name = "runcmd"
    /\ Granted("run")
    /\ Len(cmds) = 1
    /\ cmds[1].code = 1
    /\ exc.type = "ClickException"
    /\ exc.cmd = <<"mysql_secure_installation">>

\* ------------------------------------------------- reading a command line
IsApt(line) == line[1] = "sudo apt-get install "
IsRestart(line) == line[1] \in {"sudo service ", "sudo /etc/init.d/"}
HasYesFlag(line) == Len(line) >= 2 /\ line[2] = "-y "

\* the words the shell makes of a run of fragments: a " " ends a word
RECURSIVE ShellWords(_, _)
ShellWords(frags, word) ==
    IF frags = <<>> THEN (IF word = "" THEN <<>> ELSE <<word>>)
    ELSE IF Head(frags) = " "
         THEN (IF word = "" THEN <<>> ELSE <<word>>) \o ShellWords(Tail(frags), "")
         ELSE ShellWords(Tail(frags), word \o Head(frags))

\* the package names an apt command line carries
AptOperands(line) ==
    ShellWords(SubSeq(line, IF HasYesFlag(line) THEN 3 ELSE 2, Len(line)), "")

AptCmds == {i \in DOMAIN cmds : IsApt(cmds[i].line)}
PrimaryCmds(srv) == {i \in DOMAIN cmds : cmds[i].line = <<"sudo service ", srv, " restart">>}
FallbackCmds(srv) == {i \in DOMAIN cmds : cmds[i].line = <<"sudo /etc/init.d/", srv, "  restart">>}

\* ---------------------------------------------------------------------- C3
\* C3: whatever apt_install calls preceded finish(), the package names on
\* the package-manager command line are exactly the names requested, each
\* of them once; and the command line is there when names were requested
\* and the command was not declined.
C3_FlushedNamesAreUnion ==
    op.name = "finish" =>
        /\ \A i \in AptCmds :
              LET names == AptOperands(cmds[i].line)
              IN  /\ Range(names) = requested
                  /\ Len(names) = Cardinality(requested)
        /\ (requested # {} /\ (batch \/ Granted("run"))) => AptCmds # {}

\* three names, asked for in some calls, are on the one command line
C3_Witness ==
    /\ op.name = "finish"
    /\ Cardinality(requested) = 3
    /\ AptCmds # {}

\* ---------------------------------------------------------------------- C4
\* C4 as stated: the sets only grow outside finish(), the installs and
\* restarts are issued by finish() alone, and finish() leaves the sets
\* empty.
C4_ClearedByFinish ==
    [][/\ op'.name # "finish" =>
            (_services \subseteq _services' /\ _system_packages \subseteq _system_packages')
       /\ (\E i \in DOMAIN cmds' : IsApt(cmds'[i].line) \/ IsRestart(cmds'[i].line))
            => op'.name = "finish"
       /\ op'.name = "finish" => (_services' = {} /\ _system_packages' = {})]_vars

\* C4 amended: no operation, finish() included, removes a name from
\* pendingPackages or pendingServices; the installs and restarts are issued
\* by finish() and by no other operation; finish() does not clear the sets,
\* they hold after it what they held before it.
C4_GrowOnlyFlushedByFinish ==
    [][/\ _services \subseteq _services'
       /\ _system_packages \subseteq _system_packages'
       /\ (\E i \in DOMAIN cmds' : IsApt(cmds'[i].line) \/ IsRestart(cmds'[i].line))
            => op'.name = "finish"
       /\ op'.name = "finish" =>
            (_services' = _services /\ _system_packages' = _system_packages)]_vars

\* finish() has installed and restarted, and the sets still hold the names
C4_Witness ==
    /\ op.name = "finish"
    /\ AptCmds # {}
    /\ \E i \in DOMAIN cmds : IsRestart(cmds[i].line)
    /\ _system_packages # {}
    /\ Cardinality(_services) = 2

\* ---------------------------------------------------------------------- C5
\* C5: in a session that is not privileged finish() runs no command at
\* all, neither the package manager nor a service restart.
C5_UnprivilegedFinishRunsNothing ==
    (op.name = "finish" /\ ~root) => cmds = <<>>

\* ---------------------------------------------------------------------- C6
\* C6 as stated: privileged, with packages pending, finish() issues exactly
\* one package-manager command line, holding every pending name and, in
\* batch mode, the flag -y; with nothing pending it issues none.
C6_OneInstallCommand ==
    (op.name = "finish" /\ root) =>
        IF _system_packages # {}
        THEN /\ Cardinality(AptCmds) = 1
             /\ \A i \in AptCmds :
                   /\ _system_packages \subseteq Range(AptOperands(cmds[i].line))
                   /\ batch => HasYesFlag(cmds[i].line)
        ELSE AptCmds = {}

\* C6 amended: privileged, with packages pending, finish() issues exactly
\* one package-manager command line, holding every pending name and, in
\* batch mode, the flag -y, provided batch mode is on or the confirmation
\* of the command is granted; when that confirmation is declined, or
\* nothing is pending, it issues none.
C6_OneInstallCommandIfConfirmed ==
    (op.name = "finish" /\ root) =>
        IF _system_packages # {} /\ (batch \/ Granted("run"))
        THEN /\ Cardinality(AptCmds) = 1
             /\ \A i \in AptCmds :
                   /\ _system_packages \subseteq Range(AptOperands(cmds[i].line))
                   /\ batch => HasYesFlag(cmds[i].line)
        ELSE AptCmds = {}

\* root, batch mode, three names pending: one command line with -y
C6_Witness ==
    /\ op.name = "finish"
    /\ root
    /\ batch
    /\ Cardinality(_system_packages) = 3
    /\ Cardinality(AptCmds) = 1
    /\ HasYesFlag(cmds[1].line)

\* ---------------------------------------------------------------------- C7
\* C7: once finish() has passed the confirmation of the restarts (or batch
\* mode is on and the install has not failed), every pending service gets
\* exactly one primary restart command; a service whose primary command
\* failed gets exactly one fallback command, right after it, and no other
\* service gets one; no restart failure leaves finish(), so the services
\* after a failed one are restarted too.
RestartsConfirmed ==
    \/ Granted("Restart services")
    \/ batch /\ \A i \in AptCmds : cmds[i].code = 0

C7_RestartOnceThenOneFallback ==
    (op.name = "finish" /\ RestartsConfirmed) =>
        /\ exc = NoExc
        /\ \A srv \in _services :
              /\ Cardinality(PrimaryCmds(srv)) = 1
              /\ \A i \in PrimaryCmds(srv) :
                    IF cmds[i].code # 0
                    THEN FallbackCmds(srv) = {i + 1}
                    ELSE FallbackCmds(srv) = {}
        /\ \A srv \in Services \ _services : PrimaryCmds(srv) \cup FallbackCmds(srv) = {}

\* both restart commands of one service failed and the other service was
\* restarted after that
C7_Witness ==
    /\ op.name = "finish"
    /\ exc = NoExc
    /\ \E srv \in _services, other \in _services :
          /\ other # srv
          /\ \E i \in FallbackCmds(srv), j \in PrimaryCmds(other) :
                /\ cmds[i].code # 0
                /\ i < j

\* ---------------------------------------------------------------------- C9
\* C9: a gated operation (runcmd, check_overwrite, write_file, jinja_write,
\* write_supervisor_conf, write_logrotate_conf, check_permissions,
\* check_virtualenv) whose confirmations are all declined has no effect: it
\* runs no command, leaves the filesystem, pendingPackages and
\* pendingServices as they were, and raises no failure.
GatedOps ==
    {"runcmd", "check_overwrite", "write_file", "jinja_write", "write_supervisor_conf",
     "write_logrotate_conf", "check_permissions", "check_virtualenv"}

AllDeclined(ps) == ps # <<>> /\ \A i \in DOMAIN ps : ps[i].answer = "False"

C9_DeclinedHasNoEffect ==
    [][(op'.name \in GatedOps /\ AllDeclined(prompts')) =>
            /\ cmds' = <<>>
            /\ fs' = fs
            /\ _system_packages' = _system_packages
            /\ _services' = _services
            /\ exc' = NoExc]_vars

\* --------------------------------------------------------------------- C10
\* C10: check_overwrite(path) on a path that does not exist returns true,
\* asks nothing and changes nothing; on a path that exists, once the
\* overwrite is accepted, it removes the file, or the directory with all
\* that is below it, and returns true; once the overwrite is declined it
\* returns false and the path is as it was, content, mode and all.
C10_CheckOverwrite ==
    [][op'.name = "check_overwrite" =>
            LET p == op'.seq
                accepted == batch \/ Last(prompts').answer = "True"
            IN  /\ exc' = NoExc
                /\ ~exists(fs, p) =>
                      (ret' = "True" /\ prompts' = <<>> /\ reads' = 0 /\ fs' = fs)
                /\ (exists(fs, p) /\ accepted) =>
                      /\ ret' = "True"
                      /\ \A q \in Paths : fs'[q] = (IF IsPrefix(p, q) THEN Absent ELSE fs[q])
                /\ (exists(fs, p) /\ ~accepted) =>
                      (ret' = "False" /\ fs' = fs)]_vars

\* the overwrite of the directory was accepted: it is gone with what it held
C10_Witness ==
    /\ op.name = "check_overwrite"
    /\ op.seq = EnvDir
    /\ Granted("Overwrite existing directory")
    /\ ret = "True"
    /\ \A q \in {EnvDir, BinDir, PullSh} : ~exists(fs, q)
    /\ exists(fs, SupervisorConf)

\* --------------------------------------------------------------------- C11
\* the truth value Python gives to what a call returned: bool(x)
bool(x) == x = "True"

\* C11: write_file(path, content) asks check_overwrite first.  When
\* check_overwrite returns false (the path exists and the overwrite is
\* declined) nothing is written: the path keeps its content, its mode and
\* its group, no failure is raised and what write_file returns is false
\* for the caller.  When check_overwrite returns true (no such path, or the
\* overwrite is accepted) and the directory of the path is there, the path
\* is a file with the content given and write_file returns true.
C11_WriteFile ==
    [][op'.name = "write_file" =>
            LET p == op'.seq
                overwrite == \/ ~exists(fs, p)
                             \/ batch
                             \/ (prompts' # <<>> /\ prompts'[1].answer = "True")
            IN  /\ (prompts' # <<>>) = (exists(fs, p) /\ ~batch)
                /\ ~overwrite =>
                      /\ fs' = fs
                      /\ ~bool(ret')
                      /\ exc' = NoExc
                /\ (overwrite /\ dir_present(fs, Parent(p))) =>
                      /\ fs'[p].kind = "file"
                      /\ fs'[p].content = op'.text
                      /\ ret' = "True"
                      /\ exc' = NoExc]_vars

\* the overwrite of a file was declined: it holds what it held, and the
\* call returned nothing
C11_Witness ==
    /\ op.name = "write_file"
    /\ Declined("Overwrite existing file")
    /\ fs[PullSh] = File("old", 420, "lino")
    /\ ~bool(ret)
    /\ exc = NoExc

\* --------------------------------------------------------------------- C12
\* C12: check_permissions is idempotent.  A call changes nothing but the
\* group owner and the mode of its path.  When it was granted every
\* confirmation it asked and nothing else happened since, a second call
\* with the same path and the same executable flag asks nothing, reads
\* nothing and leaves the filesystem as it is: the two calls together make
\* at most one group-owner change and one mode change, those of the first.
C12_PermissionsIdempotent ==
    [][op'.name = "check_permissions" =>
            /\ \A q \in Paths :
                  /\ q # op'.seq => fs'[q] = fs[q]
                  /\ fs'[q].kind = fs[q].kind
                  /\ fs'[q].content = fs[q].content
            /\ repeated' =>
                  /\ fs' = fs
                  /\ prompts' = <<>>
                  /\ reads' = 0
                  /\ exc' = NoExc]_vars

\* privileged and interactive: the first call was granted the change of
\* the group owner and of the mode, the second call found nothing to do
C12_Witness ==
    /\ repeated
    /\ root
    /\ ~batch
    /\ op.seq = EnvDir
    /\ fs[EnvDir] = Dir(target_mode(TRUE, FALSE), UserGroup)
    /\ prompts = <<>>

\* ------------------------------------------------- reading the prompt log
AskedIn(ps, msg) == \E i \in DOMAIN ps : ps[i].msg = msg
GrantedIn(ps, msg) == \E i \in DOMAIN ps : ps[i] = [msg |-> msg, answer |-> "True"]

\* --------------------------------------------------------------------- C13
\* C13: check_permissions changes the group owner of its path only when
\* the session is privileged, the group owner is not the shared group and
\* batch mode is on or the confirmation is granted, and then the group
\* owner becomes the shared group; under these conditions it does change
\* it.  In a session that is not privileged it never changes the group
\* owner and never asks about it.
C13_GroupOwnerChange ==
    [][op'.name = "check_permissions" =>
            LET p == op'.seq
                allowed == /\ root
                           /\ exists(fs, p)
                           /\ fs[p].group # UserGroup
                           /\ (batch \/ GrantedIn(prompts', "Set group owner"))
            IN  /\ fs'[p].group # fs[p].group => allowed
                /\ allowed => fs'[p].group = UserGroup
                /\ AskedIn(prompts', "Set group owner") =>
                      (root /\ ~batch /\ fs[p].group # UserGroup)
                /\ ~root => (fs'[p].group = fs[p].group /\ ~AskedIn(prompts', "Set group owner"))]_vars

\* privileged and interactive: the change of the group owner was granted
\* and made, the change of the mode was declined
C13_Witness ==
    /\ op.name = "check_permissions"
    /\ root
    /\ ~batch
    /\ Granted("Set group owner")
    /\ Declined("Set mode")
    /\ fs[op.seq].group = UserGroup
    /\ fs[op.seq].mode = 420

\* --------------------------------------------------------------------- C14
\* C14: the mode check_permissions wants is 0664 (436) for a file, 0775
\* (509) for a file when executable is true, 02775 (1533) for a directory.
\* When the mode bits of the path differ from it and batch mode is on or
\* the confirmation is granted, the mode of the path becomes exactly that
\* mode, whether or not the group owner was changed; when the confirmation
\* is declined, or the mode bits are the wanted ones already, the mode is
\* left as it is, and in the latter case nothing is asked about it.
WantedMode(is_dir, executable) == IF is_dir THEN 1533 ELSE IF executable THEN 509 ELSE 436

C14_TargetMode ==
    [][(op'.name = "check_permissions" /\ exists(fs, op'.seq)) =>
            LET p == op'.seq
                wanted == WantedMode(isdir(fs, p), op'.flag = "True")
                differs == S_IMODE(fs[p].mode) # wanted
                allowed == batch \/ GrantedIn(prompts', "Set mode")
            IN  /\ (differs /\ allowed) => fs'[p].mode = wanted
                /\ (differs /\ ~allowed) => fs'[p].mode = fs[p].mode
                /\ ~differs => (fs'[p].mode = fs[p].mode /\ ~AskedIn(prompts', "Set mode"))
                /\ AskedIn(prompts', "Set mode") = (differs /\ ~batch)]_vars

\* privileged and interactive: the change of the group owner of a file was
\* declined, the change of its mode to 0775 was granted and made
C14_Witness ==
    /\ op.name = "check_permissions"
    /\ op.seq = PullSh
    /\ op.flag = "True"
    /\ Declined("Set group owner")
    /\ Granted("Set mode")
    /\ fs[PullSh].group = "lino"
    /\ fs[PullSh].mode = 509

IsClone(line, nickname) ==
    /\ line[1] = "git clone --depth 1 -b "
    /\ Last(line) = nickname

\* C16 as stated: clone_repo issues exactly one shallow, single-branch
\* clone command when the directory of the repository does not exist, and
\* no command when it exists, leaving the directory as it is; two calls in
\* a row that end well issue exactly one clone command.
C16_OneCloneWhenMissing ==
    [][op'.name = "clone_repo" =>
            IF ~exists(fs, op'.seq)
            THEN /\ Len(cmds') = 1
                 /\ IsClone(cmds'[1].line, op'.seq[1])
            ELSE /\ cmds' = <<>>
                 /\ fs' = fs]_vars

\* C16 amended: when the directory of the repository does not exist,
\* clone_repo hands one shallow, single-branch clone command to runcmd:
\* the command is executed exactly once when batch mode is on or its
\* confirmation is granted, and not at all when the confirmation is
\* declined, which leaves everything as it was.  When the directory
\* exists, clone_repo issues no command, asks nothing and leaves the
\* filesystem as it is.  So the second of two calls in a row for the same
\* repository, the first of which ended well with all it asked granted,
\* issues no command: the two issue one clone command when the directory
\* was missing before the first, and none otherwise.
C16_OneCloneIfConfirmed ==
    [][op'.name = "clone_repo" =>
            /\ IF ~exists(fs, op'.seq)
               THEN IF batch \/ GrantedIn(prompts', "run")
                    THEN /\ Len(cmds') = 1
                         /\ IsClone(cmds'[1].line, op'.seq[1])
                         /\ cmds'[1].line[2] = Branch
                         /\ (cmds'[1].code = 0) = exists(fs', op'.seq)
                         /\ (cmds'[1].code = 0) = (exc' = NoExc)
                    ELSE /\ cmds' = <<>>
                         /\ fs' = fs
                         /\ exc' = NoExc
               ELSE /\ cmds' = <<>>
                    /\ prompts' = <<>>
                    /\ fs' = fs
                    /\ exc' = NoExc
            /\ \A q \in Paths \ {op'.seq} : fs'[q] = fs[q]
            /\ repeated' =>
                  /\ cmds' = <<>>
                  /\ Len(cmds) <= 1
                  /\ Len(cmds) = 1 => (cmds[1].code = 0 /\ IsClone(cmds[1].line, op'.seq[1]))]_vars

\* interactive: the first call was granted the clone, which ended well,
\* and the second call for the same repository found the directory and
\* issued nothing
C16_Witness ==
    /\ op.name = "clone_repo"
    /\ op.seq = <<"lino">>
    /\ repeated
    /\ ~batch
    /\ cmds = <<>>
    /\ prompts = <<>>
    /\ isdir(fs, <<"lino">>)

\* --------------------------------------------------------------------- C17
\* C17: in a privileged session check_usergroup(g) returns normally
\* whatever the groups of the user are; in a session that is not
\* privileged it returns normally exactly when g is one of the groups of
\* the calling user, and raises otherwise a fatal error (ClickException)
\* whose message names g.
C17_CheckUsergroup ==
    op.name = "check_usergroup" =>
        LET g == op.text
        IN  /\ root => exc = NoExc
            /\ ~root => ((exc = NoExc) = (g \in usergroups))
            /\ exc # NoExc =>
                  /\ exc.type = "ClickException"
                  /\ g \in Range(exc.cmd)
            /\ cmds = <<>>
            /\ prompts = <<>>

\* not privileged, groups staff and dev: check_usergroup("www-data") has
\* raised the failure that names www-data
C17_Witness ==
    /\ op.name = "check_usergroup"
    /\ ~root
    /\ usergroups = {"staff", "dev"}
    /\ op.text = "www-data"
    /\ exc.type = "ClickException"
    /\ "www-data" \in Range(exc.cmd)

\* --------------------------------------------------------------------- C18
\* C18: apt_install and must_restart do nothing at once: they run no
\* command, ask nothing, read nothing, leave the filesystem and batch mode
\* as they are and raise nothing.  apt_install changes pendingPackages
\* only (by the names it was given) and must_restart changes
\* pendingServices only (by the one name it was given).
C18_DeferredOnly ==
    [][/\ op'.name \in {"apt_install", "must_restart"} =>
            /\ cmds' = <<>>
            /\ prompts' = <<>>
            /\ reads' = 0
            /\ fs' = fs
            /\ batch' = batch
            /\ exc' = NoExc
            /\ ret' = "None"
       /\ op'.name = "apt_install" =>
            /\ _services' = _services
            /\ _system_packages' = _system_packages \cup (requested' \ requested)
       /\ op'.name = "must_restart" =>
            /\ _system_packages' = _system_packages
            /\ _services' = _services \cup {op'.text}]_vars

\* two package names were asked for after a service was marked: the
\* packages are pending, the services are the ones marked, nothing has run
C18_Witness ==
    /\ op.name = "apt_install"
    /\ _services = {"nginx"}
    /\ Cardinality(_system_packages) = 2
    /\ cmds = <<>>
    /\ ~finished

\* --------------------------------------------------------------------- C19
\* C19: in interactive mode yes_or_no reads one character after the other
\* until it has read one of the accept set (y, Y) or of the reject set
\* (n, N): every character read before the last is in neither set (a mere
\* RETURN is such a character) and has ended nothing; the last one is in
\* one of the two sets, and the call returns true when it is in the accept
\* set and false when it is in the reject set, whatever the default is.
C19_OnlyYesOrNoAnswers ==
    (op.name = "yes_or_no" /\ ~batch) =>
        /\ reads >= 1
        /\ Len(typed) = reads
        /\ \A i \in 1..(Len(typed) - 1) : typed[i] \notin {"y", "Y", "n", "N"}
        /\ Last(typed) \in {"y", "Y", "n", "N"}
        /\ ret = (IF Last(typed) \in {"y", "Y"} THEN "True" ELSE "False")
        /\ prompts = <<[msg |-> op.text, answer |-> ret]>>
        /\ exc = NoExc

\* the default is true, RETURN was typed and then N: the answer is false
C19_Witness ==
    /\ op.name = "yes_or_no"
    /\ ~batch
    /\ op.flag = "True"
    /\ typed = <<"\r", "N">>
    /\ ret = "False"

\* --------------------------------------------------------------------- C20
\* C20: finish() is the last step of the configure script that acts: once
\* it has run, no statement of the script requests a package or the
\* restart of a service, runs a command or writes to the filesystem.
C20_NothingAfterFinish ==
    [][finished =>
            /\ _system_packages' = _system_packages
            /\ _services' = _services
            /\ cmds' = <<>>
            /\ fs' = fs]_vars

\* --------------------------------------------------------------------- C21
\* the fallback restart command follows the command at place k of cmds
FallbackFollows(cs, k) ==
    /\ k < Len(cs)
    /\ Len(cs[k].line) = 3
    /\ cs[k].line = restart_cmd(cs[k].line[2])
    /\ cs[k + 1].line = fallback_cmd(cs[k].line[2])

\* C21: no failure of a command is swallowed in a configure session: a
\* command that exits with a status other than 0 is either the last command
\* of its step, whose failure the step raises with the command line and the
\* exit code, or the primary restart command of a service, which its
\* fallback command follows; and after a failure was raised the script
\* takes no further step.
C21_NoFailureSwallowed ==
    [][/\ exc = NoExc
       /\ \A k \in DOMAIN cmds' :
            cmds'[k].code # 0 =>
                \/ k = Len(cmds') /\ exc' = ClickException(cmds'[k].line, cmds'[k].code)
                \/ FallbackFollows(cmds', k)]_vars

\* --------------------------------------------------------------------- C22
StartMsg == "Start configuring your system using above options?"

\* the step "start" of the script has asked its confirmation and got a no
StartDeclined ==
    /\ op.name = "configure"
    /\ op.text = "start"
    /\ prompts = <<[msg |-> StartMsg, answer |-> "False"]>>

\* C22: when the start confirmation of configure is declined the session
\* ends with the cancellation Abort and has changed nothing: the
\* filesystem is as the session found it (the configuration file is not
\* written, no directory was created), no command has run, no package and
\* no restart of a service has been requested.
C22_DeclinedStartChangesNothing ==
    StartDeclined =>
        /\ exc = Abort
        /\ fs \in {FsEmpty, FsConfigured}
        /\ cmds = <<>>
        /\ _system_packages = {}
        /\ _services = {}

\* --------------------------------------------------------------------- C23
\* a path of the host outside the home and the working directory of the user
SystemWide(p) == p[1] \in {"etc", "var", "usr"}

\* the statements of the script that are for root only
PrivilegedSteps ==
    {"upgrade", "logrotate", "monit", "appy", "mysql", "certbot", "renewal", "ldap"}

\* C23: in a configure session of a user who is not root no step of the
\* script other than finish() does what needs privileges: none runs a
\* command and none creates or changes a path outside the home of the user;
\* the statements that are for root only are skipped, they raise nothing
\* and the script goes on with the next statement.
C23_UnprivilegedSkips ==
    [][(~root /\ op'.text # "finish") =>
            /\ cmds' = <<>>
            /\ \A p \in Paths : SystemWide(p) => fs'[p] = fs[p]
            /\ op'.text \in PrivilegedSteps =>
                    /\ exc' = NoExc
                    /\ prompts' = <<>>
                    /\ fs' = fs
                    /\ _system_packages' = _system_packages
                    /\ _services' = _services
                    /\ batch' = batch]_vars

\* --------------------------------------------------------------------- C24
AllExitZero(cs) == \A k \in DOMAIN cs : cs[k].code = 0

\* the session was started with --batch and without --clone
BatchSession == batch0 /\ ~params.clone

BeforeRequests == {"prepare", "options", "start"}

\* C25: configure writes its configuration file once, in the step that
\* follows the resolution of the options, and only when the start
\* confirmation was granted (or the session is a batch session): no other
\* step changes the file, the step that was granted leaves the file with
\* the configuration in it, no option changes at or after that step, and
\* up to that step no package and no restart was requested, no command
\* was run and no other file was written.
C25_ConfigFileWrittenOnce ==
    [][/\ fs'[ConfFile(root)] # fs[ConfFile(root)] =>
            /\ op'.text = "start"
            /\ exc' = NoExc
            /\ batch0 \/ GrantedIn(prompts', StartMsg)
       /\ (op'.text = "start" /\ exc' = NoExc) =>
            /\ fs'[ConfFile(root)].kind = "file"
            /\ fs'[ConfFile(root)].content = "CONFIG"
       /\ op'.text \notin {"prepare", "options"} => options' = options
       /\ op'.text \in BeforeRequests =>
            /\ cmds' = <<>>
            /\ _system_packages' = {}
            /\ _services' = {}
            /\ requested' = {}
            /\ \A p \in Paths \ {ConfFile(root)} :
                    fs'[p].kind = "file" => fs'[p] = fs[p]]_vars

\* the file an earlier session had left was written anew, and the script
\* has gone on to flush its requests
C25_Witness ==
    /\ root
    /\ finished
    /\ fs[ConfFile(root)].content = "CONFIG"
    /\ options = StoredConfig
    /\ ~batch0

\* --------------------------------------------------------------------- C26
\* the places of the prompts that asked for the option k
AskedFor(ps, k) == {i \in DOMAIN ps : ps[i].msg = k}

\* the option k has in o2 what it had in o
SameStored(o, o2, k) == o2[k] = o[k] /\ (k \in o2.unset) = (k \in o.unset)

\* what the option loop leaves of the options in a batch session, and of
\* the options it does not ask for in an interactive one
LoopStoresOrSkips ==
    /\ batch0 =>
            /\ prompts' = <<>>
            /\ \A k \in Range(CONFIGURE_OPTIONS) :
                    k \notin options'.unset /\ options'[k] = str(k, params[k])
    /\ ~batch0 =>
            \A k \in Range(CONFIGURE_OPTIONS) :
                (k \in RootOnly /\ ~root) =>
                    AskedFor(prompts', k) = {} /\ SameStored(options, options', k)

\* C26 as it was stated: every option that is asked for is asked for once
\* and the answer is what is stored.
C26_AnswerStoredAsGiven ==
    [][op'.text = "options" =>
            /\ LoopStoresOrSkips
            /\ ~batch0 =>
                    \A k \in Range(CONFIGURE_OPTIONS) :
                        ~(k \in RootOnly /\ ~root) =>
                            /\ Cardinality(AskedFor(prompts', k)) = 1
                            /\ k \notin options'.unset
                            /\ \A i \in AskedFor(prompts', k) : options'[k] = prompts'[i].answer]_vars

\* C26, amended: in an interactive session of a user who is not root no
\* option declared root_only is asked for and what is stored for it stays
\* as it was; every other option is asked for exactly once and what is
\* stored is its answer, for a string without its trailing slashes; in a
\* batch session no option is asked for and every option is stored with
\* the value of its parameter.
C26_OptionLoop ==
    [][op'.text = "options" =>
            /\ LoopStoresOrSkips
            /\ ~batch0 =>
                    \A k \in Range(CONFIGURE_OPTIONS) :
                        ~(k \in RootOnly /\ ~root) =>
                            /\ Cardinality(AskedFor(prompts', k)) = 1
                            /\ k \notin options'.unset
                            /\ \A i \in AskedFor(prompts', k) :
                                    options'[k] = rstrip(prompts'[i].answer)]_vars

\* a user who is not root was asked on a configured host: the office
\* server stored there stays, the shared environment typed with a slash
\* is stored without it
C26_Witness ==
    /\ op.text = "options"
    /\ ~root
    /\ ~batch0
    /\ options.appy = "True"
    /\ "appy" \notin options.unset
    /\ options.shared_env = "env"
    /\ AskedFor(prompts, "appy") = {}
    /\ \E i \in AskedFor(prompts, "shared_env") : prompts[i].answer = "env/"

\* --------------------------------------------------------------------- C27
\* C27: a write_file that has written (it returns true) has put the
\* permissions of the file right without asking: the only prompt of the
\* call is the overwrite confirmation of check_overwrite, none asks for the
\* group owner or for the mode, also in an interactive session; the file
\* holds the content given and has the mode 0664 (436), or 0775 (509) when
\* executable is true, and for root the shared group; and batch mode is
\* what it was before the call, as it is after every write_file.
C27_WriteFileNormalises ==
    [][op'.name = "write_file" =>
            /\ batch' = batch
            /\ ret' = "True" =>
                  LET p == op'.seq
                  IN  /\ Len(prompts') <= 1
                      /\ \A i \in DOMAIN prompts' :
                            prompts'[i].msg \notin {"Set group owner", "Set mode"}
                      /\ fs'[p].kind = "file"
                      /\ fs'[p].content = op'.text
                      /\ fs'[p].mode = (IF op'.flag = "True" THEN 509 ELSE 436)
                      /\ root => fs'[p].group = UserGroup]_vars

\* in an interactive session an executable file was written over an old
\* one whose mode was 0644: one prompt, and the mode is 0775
C27_Witness ==
    /\ op.name = "write_file"
    /\ ~batch
    /\ op.flag = "True"
    /\ ret = "True"
    /\ prompts = <<[msg |-> "Overwrite existing file", answer |-> "True"]>>
    /\ fs[PullSh].mode = 509
    /\ fs[PullSh].content = "new"

\* --------------------------------------------------------------------- C28
RestartCmds == {j \in DOMAIN cmds : IsRestart(cmds[j].line)}

\* C28: in finish() the command of the package manager comes before every
\* restart command; when it fails, finish() raises its failure, with the
\* command line and the exit code, and neither asks for the restart of the
\* services nor runs a restart command.
C28_InstallBeforeRestarts ==
    op.name = "finish" =>
        /\ \A i \in AptCmds, j \in RestartCmds : i < j
        /\ \A i \in AptCmds :
              cmds[i].code # 0 =>
                  /\ exc = ClickException(cmds[i].line, cmds[i].code)
                  /\ RestartCmds = {}
                  /\ ~Granted("Restart services")
                  /\ ~Declined("Restart services")

\* services were pending when the install failed: finish() has raised and
\* the install is the only command it ran
C28_Witness ==
    /\ op.name = "finish"
    /\ _services # {}
    /\ Len(cmds) = 1
    /\ IsApt(cmds[1].line)
    /\ cmds[1].code # 0
    /\ exc.type = "ClickException"

\* --------------------------------------------------------------------- C29
PromptsFor(ps, msg) == {i \in DOMAIN ps : ps[i].msg = msg}

\* C29: the restart commands of finish() run inside override_batch(True):
\* an interactive session is asked at most once for all the restarts
\* together, and the only command it is asked about is the install, before
\* that; no restart command and no fallback command asks. When finish()
\* ends, batch mode is what it was on entry, whether the restarts were
\* declined, all succeeded, or some restart or fallback command failed.
C29_RestartsInForcedBatch ==
    [][(~finished /\ finished') =>
          /\ batch' = batch
          /\ Cardinality(PromptsFor(prompts', "Restart services")) <= 1
          /\ PromptsFor(prompts', "run") =
                (IF batch \/ _system_packages = {} THEN {} ELSE {1})
          /\ Len(prompts') <= 2
          /\ batch => prompts' = <<>>
      ]_vars

\* an interactive session granted the restarts; the restart command of a
\* service and its fallback command have both failed, nothing was asked
\* about them, and the session is interactive as before
C29_Witness ==
    /\ op.name = "finish"
    /\ ~batch
    /\ prompts = <<[msg |-> "Restart services", answer |-> "True"]>>
    /\ \E srv \in _services :
          \E i \in PrimaryCmds(srv) :
              /\ cmds[i].code # 0
              /\ i + 1 \in FallbackCmds(srv)
              /\ cmds[i + 1].code # 0
    /\ exc = NoExc

\* --------------------------------------------------------------------- C30
\* the value of batch mode around the innermost open scope
Enclosing(sc) == IF Len(sc) >= 2 THEN sc[2].b ELSE batch0

\* C30: the override_batch scopes nest last in, first out. write_file,
\* which opens a scope of its own, leaves batch mode at the value of the
\* scope that encloses the call (the session's value when none does),
\* whether it returns or raises; leaving a scope puts back the value of the
\* scope around it, and leaving the outermost scope puts back the value the
\* session started with, also while a failure is propagating.
C30_ScopesNest ==
    [][/\ op'.name = "write_file" =>
             /\ scopes' = scopes
             /\ batch' = (IF scopes = <<>> THEN batch0 ELSE Head(scopes).b)
       /\ (scopes # <<>> /\ scopes' = Tail(scopes)) =>
             /\ batch' = Head(scopes).old
             /\ batch' = Enclosing(scopes)
             /\ exc' = exc
      ]_vars

\* write_file, called inside a scope that had made the session interactive,
\* has written the file and was not asked about its mode; batch mode is the
\* value of that scope, not the value the session started with
C30_Witness ==
    /\ op.name = "write_file"
    /\ ret = "True"
    /\ Len(scopes) = 1
    /\ Head(scopes).b = FALSE
    /\ batch0 = TRUE
    /\ batch = FALSE
    /\ PromptsFor(prompts, "Set mode") = {}
    /\ fs[PullSh].kind = "file"
    /\ fs[PullSh].content = "new"

\* write_file has raised inside two scopes, both were left while the
\* failure went on, and batch mode is the value the session started with
C30_RaisedThrough ==
    /\ op.name = "override_batch.exit"
    /\ exc = OSError
    /\ scopes = <<>>
    /\ batch = batch0
    /\ Str2Bool(op.flag) # batch0

====
